---- MODULE Spec2Model ----
(***************************************************************************)
(* A model of the pharmacy data pipeline of this repository:               *)
(*   data_cleaning.py      to_float_id, parse_pembelian_tsv, parse_stok_tsv*)
(*   outlier_detection.py  detect_outliers                                 *)
(*   handler.py            typical_unit_per_code, classify_outliers,       *)
(*                         handle_outliers                                 *)
(*                                                                         *)
(* Text is a sequence of one-character strings, so that the regular        *)
(* expressions, strip/split/find and the number conversion of the source   *)
(* are computed character by character.  A float is kept as the decimal    *)
(* it denotes, [m, e] standing for m / 10^e, or as a fraction <<n, d>>     *)
(* where the source divides.                                               *)
(***************************************************************************)
EXTENDS Integers, Sequences, FiniteSets, TLC

VARIABLES
    pc,                 \* position of the running program
    num_str,            \* to_float_id: the argument
    float_result,       \* to_float_id: the outcome
    lines,              \* parse_pembelian_tsv: the lines of the file
    pos,                \* parse_pembelian_tsv: number of lines consumed
    current_code,       \* parse_pembelian_tsv: product context
    current_name,
    current_unit,
    pembelian_records,  \* parse_pembelian_tsv: records appended so far
    rec_line,           \* history: the line number each record was read from
    df,                 \* the transaction table handed to the detector
    detector,           \* detect_outliers: the arguments it was called with
    outlier_mask,       \* detect_outliers: flag per row label
    classified,         \* classify_outliers: the rows of the flagged subset
    cleaned_df,         \* handle_outliers: first component of the result
    cleaned_mask,       \* handle_outliers: second component of the result
    stok_lines,         \* parse_stok_tsv: the lines of the file
    stok_pos,           \* parse_stok_tsv: number of lines consumed
    stok_records,       \* parse_stok_tsv: records appended so far
    stok_error          \* parse_stok_tsv: the exception that ended the call

vars == <<pc, num_str, float_result, lines, pos, current_code, current_name,
          current_unit, pembelian_records, rec_line, df, detector, outlier_mask,
          classified,
          cleaned_df, cleaned_mask, stok_lines, stok_pos, stok_records,
          stok_error>>

floatVars == <<num_str, float_result>>
ledgerVars == <<lines, pos, current_code, current_name, current_unit,
                pembelian_records, rec_line>>
tableVars == <<df, detector, outlier_mask, classified, cleaned_df,
               cleaned_mask>>
stokVars == <<stok_lines, stok_pos, stok_records, stok_error>>

----------------------------------------------------------------------------
(* Bounds of the model *)

\* longest argument of to_float_id enumerated over the whole alphabet
MaxStrLen == 3
\* most lines in a ledger file
MaxLines == 3
\* most lines in a stock file
MaxStokLines == 2
\* most rows of a transaction table given directly to the classifier
MaxRows == 3

----------------------------------------------------------------------------
(* Characters and text *)

Digit == {"0", "1", "2", "3", "4", "5", "6", "7", "8", "9"}

\* the characters \s matches and str.strip() removes, as far as they occur
Whitespace == {" ", "\t"}

DigitValue ==
    [c \in Digit |->
        CASE c = "0" -> 0 [] c = "1" -> 1 [] c = "2" -> 2 [] c = "3" -> 3
          [] c = "4" -> 4 [] c = "5" -> 5 [] c = "6" -> 6 [] c = "7" -> 7
          [] c = "8" -> 8 [] c = "9" -> 9]

\* Python's None, and a missing (NaN) cell of an object column
None == <<"None">>

Spaces(n) == [i \in 1..n |-> " "]

\* s[i:] with i counted from 1
Drop(s, i) == SubSeq(s, i, Len(s))

RECURSIVE lstrip(_)
lstrip(s) ==
    IF s # <<>> /\ Head(s) \in Whitespace THEN lstrip(Tail(s)) ELSE s

RECURSIVE rstrip(_)
rstrip(s) ==
    IF s # <<>> /\ s[Len(s)] \in Whitespace
    THEN rstrip(SubSeq(s, 1, Len(s) - 1)) ELSE s

strip(s) == rstrip(lstrip(s))

startswith(s, p) == Len(s) >= Len(p) /\ SubSeq(s, 1, Len(p)) = p

\* str.find: the 0-based offset of the first occurrence of sub in s, or -1
RECURSIVE FindFrom(_, _, _)
FindFrom(s, sub, i) ==
    IF i + Len(sub) - 1 > Len(s) THEN -1
    ELSE IF SubSeq(s, i, i + Len(sub) - 1) = sub THEN i - 1
    ELSE FindFrom(s, sub, i + 1)

find(s, sub) == FindFrom(s, sub, 1)

\* length of the longest prefix of s made of characters of the set cls
RECURSIVE SpanLen(_, _)
SpanLen(s, cls) ==
    IF s # <<>> /\ Head(s) \in cls THEN 1 + SpanLen(Tail(s), cls) ELSE 0

\* re.split(r"\s+", s) of a stripped, non-empty s: its whitespace-free tokens
RECURSIVE SplitWs(_)
SplitWs(s) ==
    IF s = <<>> THEN <<>>
    ELSE LET n == SpanLen(s, {c \in {s[i] : i \in 1..Len(s)} : c \notin Whitespace})
         IN  IF n = 0 THEN SplitWs(lstrip(s))
             ELSE <<SubSeq(s, 1, n)>> \o SplitWs(lstrip(Drop(s, n + 1)))

\* str.split(sep) for a one-character separator
RECURSIVE SplitChar(_, _)
SplitChar(s, sep) ==
    LET i == find(s, <<sep>>)
    IN  IF i = -1 THEN <<s>>
        ELSE <<SubSeq(s, 1, i)>> \o SplitChar(Drop(s, i + 2), sep)

\* sep.join(parts)
RECURSIVE Join(_, _)
Join(parts, sep) ==
    IF parts = <<>> THEN <<>>
    ELSE IF Len(parts) = 1 THEN parts[1]
    ELSE parts[1] \o sep \o Join(Tail(parts), sep)

IsIn(c, s) == \E i \in 1..Len(s) : s[i] = c

----------------------------------------------------------------------------
(* Floats *)

Float(m, e) == [m |-> m, e |-> e]

Zero == Float(0, 0)

\* the decimal m / 10^e with no trailing zero in its fraction
RECURSIVE Canon(_, _)
Canon(m, e) ==
    IF e > 0 /\ m % 10 = 0 THEN Canon(m \div 10, e - 1) ELSE Float(m, e)

RECURSIVE DigitsValue(_)
DigitsValue(s) ==
    IF s = <<>> THEN 0
    ELSE 10 * DigitsValue(SubSeq(s, 1, Len(s) - 1)) + DigitValue[s[Len(s)]]

IsDigits(s) == \A i \in 1..Len(s) : s[i] \in Digit

\* float(s) for s over digits, dots and minus signs: an optional sign, digits
\* with at most one dot and at least one digit; anything else is a ValueError
float(s) ==
    LET neg  == s # <<>> /\ s[1] = "-"
        body == IF neg THEN Tail(s) ELSE s
        dot  == find(body, <<".">>)
        ip   == IF dot = -1 THEN body ELSE SubSeq(body, 1, dot)
        fp   == IF dot = -1 THEN <<>> ELSE Drop(body, dot + 2)
    IN  IF IsDigits(ip) /\ IsDigits(fp) /\ Len(ip) + Len(fp) > 0
        THEN [err |-> "",
              val |-> LET v == Canon(DigitsValue(ip \o fp), Len(fp))
                      IN  IF neg THEN Float(0 - v.m, v.e) ELSE v]
        ELSE [err |-> "ValueError", val |-> Zero]

\* re.sub(r"[^0-9.,-]", "", s)
KeepNumeric(s) == SelectSeq(s, LAMBDA c : c \in Digit \cup {".", ",", "-"})

\* a comma branch that keeps the dots: s.replace(",", ".")
CommaToPointKeepDots(s) ==
    [i \in 1..Len(s) |-> IF s[i] = "," THEN "." ELSE s[i]]

\* the comma branch: s.replace(".", "").replace(",", ".")
CommaToPoint(s) ==
    LET nodots == SelectSeq(s, LAMBDA c : c # ".")
    IN  [i \in 1..Len(nodots) |-> IF nodots[i] = "," THEN "." ELSE nodots[i]]

\* the branch without a comma: all but the last dot are thousand separators
DropThousandDots(s) ==
    LET parts == SplitChar(s, ".")
    IN  IF Len(parts) > 2
        THEN Join(SubSeq(parts, 1, Len(parts) - 1), <<>>) \o <<".">>
                 \o parts[Len(parts)]
        ELSE s

Localize(s) == IF IsIn(",", s) THEN CommaToPoint(s) ELSE DropThousandDots(s)

\* return float(s), with no handler for ValueError
FloatUncaught(s) == float(s)

\* try: return float(s) / except ValueError: return 0.0
FloatOrZero(s) ==
    LET r == float(s)
    IN  IF r.err = "ValueError" THEN [err |-> "", val |-> Zero] ELSE r

\* to_float_id(num_str): err names the exception that leaves the function
to_float_id(x) ==
    IF x = None \/ strip(x) = <<>> THEN [err |-> "", val |-> Zero]
    ELSE LET s == KeepNumeric(strip(x))
         IN  IF s = <<>> THEN [err |-> "", val |-> Zero]
             ELSE FloatOrZero(Localize(s))

----------------------------------------------------------------------------
(* parse_pembelian_tsv: the classification of one line *)

\* stripped.startswith("KODE") or stripped.startswith("TANGGAL")
IsColumnHeader(stripped) ==
    \/ startswith(stripped, <<"K", "O", "D", "E">>)
    \/ startswith(stripped, <<"T", "A", "N", "G", "G", "A", "L">>)

\* re.match(r"^A\d+", s)
IsProductCode(s) == Len(s) >= 2 /\ s[1] = "A" /\ s[2] \in Digit

\* the product context a header line sets: code, name and unit
HeaderContext(stripped) ==
    LET parts == SplitWs(stripped)
    IN  [code |-> parts[1],
         unit |-> parts[Len(parts)],
         name |-> IF Len(parts) > 2
                  THEN Join(SubSeq(parts, 2, Len(parts) - 1), <<" ">>)
                  ELSE IF Len(parts) = 2 THEN parts[2] ELSE None]

NonSpace(s) == {c \in {s[i] : i \in 1..Len(s)} : c \notin Whitespace}

\* re.match(r"^(\d{2}-\d{2}-\d{2})\s+(\S+)\s+(.*)$", t): the three groups, and
\* the 0-based offset at which the third one starts in t
TransMatch(t) ==
    LET isDate == /\ Len(t) >= 8
                  /\ \A i \in {1, 2, 4, 5, 7, 8} : t[i] \in Digit
                  /\ t[3] = "-" /\ t[6] = "-"
        a   == Drop(t, 9)
        ws1 == SpanLen(a, Whitespace)
        b   == Drop(a, ws1 + 1)
        tok == SpanLen(b, NonSpace(b))
        c   == Drop(b, tok + 1)
        ws2 == SpanLen(c, Whitespace)
    IN  IF isDate /\ ws1 > 0 /\ tok > 0 /\ ws2 > 0
        THEN [ok |-> TRUE,
              tanggal |-> SubSeq(t, 1, 8),
              no_transaksi |-> SubSeq(b, 1, tok),
              remainder |-> Drop(c, ws2 + 1),
              start |-> 8 + ws1 + tok + ws2]
        ELSE [ok |-> FALSE, tanggal |-> <<>>, no_transaksi |-> <<>>,
              remainder |-> <<>>, start |-> 0]

\* the length of the match of r"\d[\d\.]*,\d+" at the head of s, 0 if none
NumberAt(s) ==
    IF s = <<>> \/ Head(s) \notin Digit THEN 0
    ELSE LET run  == SpanLen(s, Digit \cup {"."})
             rest == Drop(s, run + 1)
             frac == IF rest # <<>> /\ Head(rest) = ","
                     THEN SpanLen(Tail(rest), Digit) ELSE 0
         IN  IF frac > 0 THEN run + 1 + frac ELSE 0

\* re.findall(r"\d[\d\.]*,\d+", s), each match with its 0-based offset in s
RECURSIVE FindNumbers(_, _)
FindNumbers(s, off) ==
    IF s = <<>> THEN <<>>
    ELSE LET n == NumberAt(s)
         IN  IF n = 0 THEN FindNumbers(Tail(s), off + 1)
             ELSE <<[tok |-> SubSeq(s, 1, n), at |-> off]>>
                      \o FindNumbers(Drop(s, n + 1), off + n)

findall(s) == LET ms == FindNumbers(s, 0) IN [i \in 1..Len(ms) |-> ms[i].tok]

\* the column boundary of the two-number case
OffsetThreshold == 60

\* idx < 60
IsPurchaseOffset(idx) == idx < OffsetThreshold

F(tok) == to_float_id(tok).val

\* the four numeric fields with the third of three numbers taken as nilai_klr
QuantitiesThirdAsValue(t, num_tokens) ==
    LET n == Len(num_tokens)
    IN  IF n = 4
        THEN [qty_msk |-> F(num_tokens[1]), nilai_msk |-> F(num_tokens[2]),
              qty_klr |-> F(num_tokens[3]), nilai_klr |-> F(num_tokens[4])]
        ELSE IF n = 2
        THEN IF IsPurchaseOffset(find(t, num_tokens[1]))
             THEN [qty_msk |-> F(num_tokens[1]), nilai_msk |-> F(num_tokens[2]),
                   qty_klr |-> Zero, nilai_klr |-> Zero]
             ELSE [qty_msk |-> Zero, nilai_msk |-> Zero,
                   qty_klr |-> F(num_tokens[1]), nilai_klr |-> F(num_tokens[2])]
        ELSE IF n = 3
        THEN [qty_msk |-> F(num_tokens[1]), nilai_msk |-> F(num_tokens[2]),
              qty_klr |-> Zero, nilai_klr |-> F(num_tokens[3])]
        ELSE IF n = 1
        THEN [qty_msk |-> F(num_tokens[1]), nilai_msk |-> Zero,
              qty_klr |-> Zero, nilai_klr |-> Zero]
        ELSE [qty_msk |-> Zero, nilai_msk |-> Zero,
              qty_klr |-> Zero, nilai_klr |-> Zero]

\* the four numeric fields of a transaction line, by the count of num_tokens
Quantities(t, num_tokens) ==
    LET n == Len(num_tokens)
    IN  IF n = 4
        THEN [qty_msk |-> F(num_tokens[1]), nilai_msk |-> F(num_tokens[2]),
              qty_klr |-> F(num_tokens[3]), nilai_klr |-> F(num_tokens[4])]
        ELSE IF n = 2
        THEN IF IsPurchaseOffset(find(t, num_tokens[1]))
             THEN [qty_msk |-> F(num_tokens[1]), nilai_msk |-> F(num_tokens[2]),
                   qty_klr |-> Zero, nilai_klr |-> Zero]
             ELSE [qty_msk |-> Zero, nilai_msk |-> Zero,
                   qty_klr |-> F(num_tokens[1]), nilai_klr |-> F(num_tokens[2])]
        ELSE IF n = 3
        THEN [qty_msk |-> F(num_tokens[1]), nilai_msk |-> F(num_tokens[2]),
              qty_klr |-> F(num_tokens[3]), nilai_klr |-> Zero]
        ELSE IF n = 1
        THEN [qty_msk |-> F(num_tokens[1]), nilai_msk |-> Zero,
              qty_klr |-> Zero, nilai_klr |-> Zero]
        ELSE [qty_msk |-> Zero, nilai_msk |-> Zero,
              qty_klr |-> Zero, nilai_klr |-> Zero]

\* the record appended for a transaction line under a product context
TransactionRecord(t, code, name, unit) ==
    LET m == TransMatch(t)
        q == Quantities(t, findall(m.remainder))
    IN  [tanggal |-> m.tanggal, no_transaksi |-> m.no_transaksi,
         qty_msk |-> q.qty_msk, nilai_msk |-> q.nilai_msk,
         qty_klr |-> q.qty_klr, nilai_klr |-> q.nilai_klr,
         kode |-> code, nama_produk |-> name, unit |-> unit]

\* the kind of a raw line, in the order the loop body tests it
LineKind(raw_line) ==
    LET stripped == strip(raw_line)
    IN  IF stripped = <<>> THEN "blank"
        ELSE IF IsColumnHeader(stripped) THEN "column_header"
        ELSE IF IsProductCode(stripped) THEN "product_header"
        ELSE IF TransMatch(lstrip(raw_line)).ok THEN "transaction"
        ELSE "other"

----------------------------------------------------------------------------
(* Arithmetic of the table columns: a cell is a fraction n/d with d > 0,   *)
(* NaN or +inf (the quantities and values of the ledger are never          *)
(* negative, so -inf does not arise)                                       *)

RECURSIVE Pow10(_)
Pow10(e) == IF e = 0 THEN 1 ELSE 10 * Pow10(e - 1)

RECURSIVE GCD(_, _)
GCD(a, b) == IF b = 0 THEN a ELSE GCD(b, a % b)

Num(n, d) ==
    LET g == GCD(n, d) IN [k |-> "num", n |-> n \div g, d |-> d \div g]

NaN == [k |-> "nan", n |-> 0, d |-> 1]

Inf == [k |-> "inf", n |-> 1, d |-> 1]

FromFloat(v) == Num(v.m, Pow10(v.e))

\* a / b in IEEE arithmetic, for a, b >= 0
Div(a, b) ==
    IF a.k = "nan" \/ b.k = "nan" THEN NaN
    ELSE IF a.k = "inf" THEN (IF b.k = "inf" THEN NaN ELSE Inf)
    ELSE IF b.k = "inf" THEN Num(0, 1)
    ELSE IF b.n = 0 THEN (IF a.n = 0 THEN NaN ELSE Inf)
    ELSE Num(a.n * b.d, a.d * b.n)

\* a < b; every comparison with NaN is false
Lt(a, b) ==
    /\ a.k # "nan" /\ b.k # "nan"
    /\ a.k # "inf"
    /\ (b.k = "inf" \/ a.n * b.d < b.n * a.d)

Half == Num(1, 2)
OneAndHalf == Num(3, 2)

\* series.replace(0, np.nan), one cell
ZeroToNaN(x) == IF x.k = "num" /\ x.n = 0 THEN NaN ELSE x

\* a sequence of fractions in ascending order
RECURSIVE InsertSorted(_, _)
InsertSorted(s, x) ==
    IF s = <<>> THEN <<x>>
    ELSE IF Lt(x, Head(s)) THEN <<x>> \o s
    ELSE <<Head(s)>> \o InsertSorted(Tail(s), x)

RECURSIVE SortCells(_)
SortCells(s) ==
    IF s = <<>> THEN <<>> ELSE InsertSorted(SortCells(Tail(s)), Head(s))

\* Series.median(): NaN cells are skipped; NaN when nothing is left
Median(cells) ==
    LET xs == SortCells(SelectSeq(cells, LAMBDA x : x.k = "num"))
        n  == Len(xs)
    IN  IF n = 0 THEN NaN
        ELSE IF n % 2 = 1 THEN xs[(n + 1) \div 2]
        ELSE LET a == xs[n \div 2]
                 b == xs[n \div 2 + 1]
             IN  Num(a.n * b.d + b.n * a.d, 2 * a.d * b.d)

----------------------------------------------------------------------------
(* Tables: a DataFrame is the sequence of its rows, each carrying its      *)
(* index label; a Series is a sequence of [index, value]                   *)

\* pd.to_datetime(s, format="%d-%m-%y", errors="coerce") of a dd-mm-yy text:
\* <<year, month, day>>, or NaT (None) when the text names no calendar day
to_datetime(s) ==
    LET d  == DigitsValue(SubSeq(s, 1, 2))
        m  == DigitsValue(SubSeq(s, 4, 5))
        yy == DigitsValue(SubSeq(s, 7, 8))
        y  == IF yy >= 69 THEN 1900 + yy ELSE 2000 + yy
        leap == y % 4 = 0 /\ (y % 100 # 0 \/ y % 400 = 0)
        dim == IF m = 2 THEN (IF leap THEN 29 ELSE 28)
               ELSE IF m \in {4, 6, 9, 11} THEN 30 ELSE 31
    IN  IF m \in 1..12 /\ d >= 1 /\ d <= dim THEN <<y, m, d>> ELSE None

\* pd.DataFrame(records) with tanggal converted: the rows labelled 0, 1, 2, ...
DataFrame(records) ==
    [i \in 1..Len(records) |->
        [index |-> i - 1,
         tanggal |-> to_datetime(records[i].tanggal),
         no_transaksi |-> records[i].no_transaksi,
         qty_msk |-> records[i].qty_msk, nilai_msk |-> records[i].nilai_msk,
         qty_klr |-> records[i].qty_klr, nilai_klr |-> records[i].nilai_klr,
         kode |-> records[i].kode, nama_produk |-> records[i].nama_produk,
         unit |-> records[i].unit]]

Labels(t) == {t[i].index : i \in 1..Len(t)}

\* series[label], for a label the series holds
At(series, label) ==
    LET i == CHOOSE j \in 1..Len(series) : series[j].index = label
    IN  series[i].value

\* the number of true flags of a boolean Series
CountTrue(series) == Cardinality({i \in 1..Len(series) : series[i].value})

----------------------------------------------------------------------------
(* detect_outliers *)

RECURSIVE MaxOf(_)
MaxOf(S) ==
    IF S = {} THEN 0
    ELSE LET x == CHOOSE y \in S : TRUE
             m == MaxOf(S \ {x})
         IN  IF x > m THEN x ELSE m

RECURSIVE SumSeq(_)
SumSeq(s) == IF s = <<>> THEN 0 ELSE Head(s) + SumSeq(Tail(s))

RECURSIVE InsertInt(_, _)
InsertInt(s, x) ==
    IF s = <<>> THEN <<x>>
    ELSE IF x < Head(s) THEN <<x>> \o s
    ELSE <<Head(s)>> \o InsertInt(Tail(s), x)

RECURSIVE SortInts(_)
SortInts(s) == IF s = <<>> THEN <<>> ELSE InsertInt(SortInts(Tail(s)), Head(s))

\* df["qty_klr"] as integers over a common power of ten
QtyColumn(t) ==
    LET E == MaxOf({t[i].qty_klr.e : i \in 1..Len(t)})
    IN  [i \in 1..Len(t) |-> t[i].qty_klr.m * Pow10(E - t[i].qty_klr.e)]

\* flags of a detector that compares series - mean itself with the threshold
ZScoreFlagsNoStd(x, threshold) ==
    LET n == Len(x)
        S == SumSeq(x)
    IN  [i \in 1..n |->
            LET dev == IF n * x[i] - S < 0 THEN S - n * x[i] ELSE n * x[i] - S
            IN  dev * threshold[2] > threshold[1] * n]

\* z.abs() > threshold with z = (series - mean) / std, std(ddof=0), and all
\* False when std == 0; threshold is a fraction <<n, d>> >= 0.  With S the sum
\* and n the count, z_i^2 = n (n x_i - S)^2 / sum_j (n x_j - S)^2
ZScoreFlags(x, threshold) ==
    LET n   == Len(x)
        S   == SumSeq(x)
        dev == [i \in 1..n |-> n * x[i] - S]
        ss  == SumSeq([i \in 1..n |-> dev[i] * dev[i]])
    IN  [i \in 1..n |->
            /\ ss # 0
            /\ n * dev[i] * dev[i] * threshold[2] * threshold[2]
                   > threshold[1] * threshold[1] * ss]

\* 4 * series.quantile(k / 4), by linear interpolation between order statistics
Quantile4(sorted, k) ==
    LET h  == k * (Len(sorted) - 1)
        lo == h \div 4 + 1
        r  == h % 4
    IN  IF r = 0 THEN 4 * sorted[lo]
        ELSE 4 * sorted[lo] + r * (sorted[lo + 1] - sorted[lo])

\* (series < q1 - f * iqr) | (series > q3 + f * iqr), f a fraction <<n, d>>
IqrFlags(x, iqr_factor) ==
    LET sorted == SortInts(x)
        q1  == Quantile4(sorted, 1)
        q3  == Quantile4(sorted, 3)
        iqr == q3 - q1
        fn  == iqr_factor[1]
        fd  == iqr_factor[2]
    IN  [i \in 1..Len(x) |->
            \/ 4 * fd * x[i] < fd * q1 - fn * iqr
            \/ 4 * fd * x[i] > fd * q3 + fn * iqr]

\* the defaults of detect_outliers
DefaultThreshold == <<3, 1>>
DefaultIqrFactor == <<3, 2>>

\* detect_outliers(df, method, threshold, iqr_factor): a Series aligned with df
detect_outliers(t, method, threshold, iqr_factor) ==
    LET x     == QtyColumn(t)
        flags == IF method = "zscore" THEN ZScoreFlags(x, threshold)
                 ELSE IqrFlags(x, iqr_factor)
    IN  [i \in 1..Len(t) |-> [index |-> t[i].index, value |-> flags[i]]]

----------------------------------------------------------------------------
(* typical_unit_per_code and classify_outliers *)

\* the rows of group k of df.groupby("kode"); NaN keys form no group
Group(t, k) == SelectSeq(t, LAMBDA r : k # None /\ r.kode = k)

UnitCount(g, u) == Cardinality({i \in 1..Len(g) : g[i].unit = u})

\* the units value_counts().idxmax() can return for a group: the non-missing
\* units of the highest count (which of several is returned depends on the
\* order value_counts leaves ties in); None when the group has no unit
ModalUnits(g) ==
    LET us == {g[i].unit : i \in 1..Len(g)} \ {None}
    IN  IF us = {} THEN {None}
        ELSE {u \in us : \A v \in us : UnitCount(g, u) >= UnitCount(g, v)}

\* the Series typical_unit_per_code(df) can return, as functions of kode
typical_unit_per_code(t) ==
    LET codes == {t[i].kode : i \in 1..Len(t)} \ {None}
    IN  {f \in [codes -> {t[i].unit : i \in 1..Len(t)} \cup {None}] :
            \A k \in codes : f[k] \in ModalUnits(Group(t, k))}

\* nilai_klr / qty_klr with no replacement of a zero quantity
PricePerUnitByZero(r) == Div(FromFloat(r.nilai_klr), FromFloat(r.qty_klr))

\* nilai_klr / qty_klr.replace(0, np.nan), one row
PricePerUnit(r) == Div(FromFloat(r.nilai_klr), ZeroToNaN(FromFloat(r.qty_klr)))

\* price_per_unit_all.groupby(df["kode"]).median(), joined on kode k
MedianPrice(t, k) ==
    LET g == Group(t, k)
    IN  Median([i \in 1..Len(g) |-> PricePerUnit(g[i])])

\* the comparison with two missing values taken as equal
UnitDiffersNoneEqual(u, typ) == u # typ

\* object != object: a missing value on either side compares unequal
UnitDiffers(u, typ) == u = None \/ typ = None \/ u # typ

\* the classification with the bounds 0.5 and 1.5 counted as outside the band
IsErrorInclusive(price_ratio, unit, typ) ==
    \/ Lt(price_ratio, Half) \/ price_ratio = Half
    \/ Lt(OneAndHalf, price_ratio) \/ price_ratio = OneAndHalf
    \/ UnitDiffers(unit, typ)

\* (price_ratio < 0.5) | (price_ratio > 1.5) | (unit != typical_unit)
IsError(price_ratio, unit, typ) ==
    \/ Lt(price_ratio, Half)
    \/ Lt(OneAndHalf, price_ratio)
    \/ UnitDiffers(unit, typ)

\* the row of outliers_df made from row r of df
ClassifyRow(t, r, typ_unit) ==
    LET ppu == PricePerUnit(r)
        med == IF r.kode = None THEN NaN ELSE MedianPrice(t, r.kode)
        pr  == Div(ppu, med)
        typ == IF r.kode = None THEN None ELSE typ_unit[r.kode]
    IN  [index |-> r.index, kode |-> r.kode, unit |-> r.unit,
         qty_klr |-> r.qty_klr, nilai_klr |-> r.nilai_klr,
         price_per_unit |-> ppu, median_price_per_unit |-> med,
         price_ratio |-> pr, typical_unit |-> typ,
         is_error |-> IsError(pr, r.unit, typ)]

\* the classification with the median taken over the flagged rows alone
classify_outliers_flagged_only(t, mask, typ_unit) ==
    LET flagged == SelectSeq(t, LAMBDA r : At(mask, r.index))
    IN  [i \in 1..Len(flagged) |-> ClassifyRow(flagged, flagged[i], typ_unit)]

\* classify_outliers(df, outlier_mask), given the Series typ_unit that
\* typical_unit_per_code(df) returned
classify_outliers(t, mask, typ_unit) ==
    LET flagged == SelectSeq(t, LAMBDA r : At(mask, r.index))
    IN  [i \in 1..Len(flagged) |-> ClassifyRow(t, flagged[i], typ_unit)]

----------------------------------------------------------------------------
(* handle_outliers *)

\* the labels of all classified rows, erroneous or not
AllClassifiedIndices(classification) ==
    {classification[i].index : i \in 1..Len(classification)}

\* classification_df[classification_df["is_error"]].index
ErrorIndices(classification) ==
    {classification[i].index :
        i \in {j \in 1..Len(classification) : classification[j].is_error}}

\* drop(index=labels): the rows whose label is not among labels
DropLabels(t, labels) == SelectSeq(t, LAMBDA r : r.index \notin labels)

\* series.reindex(index, fill_value=fill)
Reindex(series, index, fill) ==
    [i \in 1..Len(index) |->
        [index |-> index[i],
         value |-> IF index[i] \in Labels(series)
                   THEN At(series, index[i]) ELSE fill]]

IndexOf(t) == [i \in 1..Len(t) |-> t[i].index]

\* a resolver that returns the flags it was given, not realigned
handle_outliers_stale_mask(t, mask, classification) ==
    [df |-> DropLabels(t, ErrorIndices(classification)), mask |-> mask]

\* handle_outliers(df, outlier_mask, classification_df)
handle_outliers(t, mask, classification) ==
    LET error_indices == ErrorIndices(classification)
        cleaned == DropLabels(t, error_indices)
        dropped == DropLabels(mask, error_indices)
    IN  [df |-> cleaned, mask |-> Reindex(dropped, IndexOf(cleaned), FALSE)]

----------------------------------------------------------------------------
(* The lines a ledger file is made of *)

\* a line of whitespace only
LineBlank ==
    <<" ", "\t">>

\* column headers
LineKode ==
    <<"K", "O", "D", "E", " ", " ", "N", "A", "M", "A">>

LineTanggal ==
    <<"T", "A", "N", "G", "G", "A", "L", " ", "N", "O">>

\* product headers of one, two and four tokens
HeaderCodeOnly ==
    <<"A", "1">>

HeaderTwo ==
    <<"A", "2", "2", " ", "S", "T", "R", "I", "P">>

HeaderFour ==
    <<" ", "A", "1", " ", "O", "B", "A", "T", " ", " ", "X", " ", "B", "T",
      "L">>

\* two numbers, the first at offset 16
TransExample ==
    <<"0", "1", "-", "0", "2", "-", "2", "3", " ", " ", "T", "R", "X", "1",
      " ", " ", "1", ",", "0", "0", " ", "2", ",", "0", "0">>

\* four numbers
TransFour ==
    <<"0", "2", "-", "0", "2", "-", "2", "3", " ", "T", "R", "X", "2", " ",
      "1", ",", "0", "0", " ", "2", ",", "0", "0", " ", "1", ".", "0", "0",
      "0", ",", "0", "0", " ", "1", ".", "2", "3", "4", ",", "5", "0">>

\* no number, and a date that is no calendar day
TransNone ==
    <<"3", "1", "-", "0", "2", "-", "2", "3", " ", "T", "R", "X", "3", " ",
      "R", "E", "T", "U", "R">>

\* one number
TransOne ==
    <<"0", "3", "-", "0", "2", "-", "2", "3", " ", "T", "R", "X", "4", " ",
      "5", ",", "0", "0">>

\* three numbers
TransThree ==
    <<"0", "3", "-", "0", "2", "-", "2", "3", " ", "T", "R", "X", "5", " ",
      "1", ",", "0", "0", " ", "2", ",", "0", "0", " ", "4", ",", "0",
      "0">>

\* neither header nor transaction
LineOther ==
    <<"T", "O", "T", "A", "L", " ", "5", ",", "0", "0">>

\* two numbers, the first at offset 8 + 2 + 4 + 46 = 60
TransSale ==
    <<"0", "1", "-", "0", "2", "-", "2", "3", " ", " ", "T", "R", "X",
      "1">>
      \o Spaces(46) \o <<"3", ",", "0", "0", " ", "6", ",", "0", "0">>

\* two numbers, the first at offset 8 + 1 + 5 + 46 = 60, after a transaction
\* id that holds the text of the first number
TransIdHoldsNumber ==
    <<"0", "1", "-", "0", "2", "-", "2", "3", " ", "T", "1", ",", "0",
      "0">>
      \o Spaces(46) \o <<"1", ",", "0", "0", " ", "2", ",", "0", "0">>

LedgerLines ==
    {LineBlank, LineKode, LineTanggal, HeaderCodeOnly, HeaderTwo, HeaderFour,
     TransExample, TransSale, TransIdHoldsNumber, TransFour, TransNone,
     TransOne, TransThree, LineOther}

\* all sequences over S of length at most n
RECURSIVE SeqsUpTo(_, _)
SeqsUpTo(S, n) ==
    IF n = 0 THEN {<<>>}
    ELSE LET shorter == SeqsUpTo(S, n - 1)
         IN  shorter \cup {Append(q, x) : q \in shorter, x \in S}

----------------------------------------------------------------------------
(* The variables of the parts a run does not use *)

NoArgs == [method |-> "", threshold |-> <<0, 1>>, iqr_factor |-> <<0, 1>>]

IdleFloat == num_str = None /\ float_result = [err |-> "", val |-> Zero]

IdleLedger ==
    /\ lines = <<>> /\ pos = 0 /\ pembelian_records = <<>> /\ rec_line = <<>>
    /\ current_code = None /\ current_name = None /\ current_unit = None

IdleTable ==
    /\ df = <<>> /\ detector = NoArgs /\ outlier_mask = <<>>
    /\ classified = <<>> /\ cleaned_df = <<>> /\ cleaned_mask = <<>>

IdleStok ==
    /\ stok_lines = <<>> /\ stok_pos = 0 /\ stok_records = <<>>
    /\ stok_error = ""

----------------------------------------------------------------------------
(* parse_pembelian_tsv, one action per way through the loop body, followed *)
(* by the steps of main: detect_outliers, classify_outliers, handle_outliers*)

StartParse ==
    /\ pc = "parsing"
    /\ pos = 0
    /\ current_code = None /\ current_name = None /\ current_unit = None
    /\ pembelian_records = <<>> /\ rec_line = <<>>
    /\ IdleTable /\ IdleFloat /\ IdleStok

InitLedger == lines \in SeqsUpTo(LedgerLines, MaxLines) /\ StartParse

\* the loop has a next line, of this kind
AtLine(kind) ==
    /\ pc = "parsing"
    /\ pos < Len(lines)
    /\ LineKind(lines[pos + 1]) = kind

\* if not raw_line.strip(): continue
ReadBlank ==
    /\ AtLine("blank")
    /\ pos' = pos + 1
    /\ UNCHANGED <<pc, lines, current_code, current_name, current_unit,
                   pembelian_records, rec_line, tableVars, floatVars, stokVars>>

\* if stripped.startswith("KODE") or stripped.startswith("TANGGAL"): continue
ReadColumnHeader ==
    /\ AtLine("column_header")
    /\ pos' = pos + 1
    /\ UNCHANGED <<pc, lines, current_code, current_name, current_unit,
                   pembelian_records, rec_line, tableVars, floatVars, stokVars>>

\* a header line that sets the product context only while there is none
ReadProductHeaderOnce ==
    /\ AtLine("product_header")
    /\ LET h == HeaderContext(strip(lines[pos + 1]))
       IN  IF current_code = None
           THEN /\ current_code' = h.code
                /\ current_unit' = h.unit
                /\ current_name' = h.name
           ELSE UNCHANGED <<current_code, current_unit, current_name>>
    /\ pos' = pos + 1
    /\ UNCHANGED <<pc, lines, pembelian_records, rec_line, tableVars,
                   floatVars, stokVars>>

\* if re.match(r"^A\d+", stripped): set the product context; continue
ReadProductHeader ==
    /\ AtLine("product_header")
    /\ LET h == HeaderContext(strip(lines[pos + 1]))
       IN  /\ current_code' = h.code
           /\ current_unit' = h.unit
           /\ current_name' = h.name
    /\ pos' = pos + 1
    /\ UNCHANGED <<pc, lines, pembelian_records, rec_line, tableVars,
                   floatVars, stokVars>>

\* the line matches trans_match: append a record
ReadTransaction ==
    /\ AtLine("transaction")
    /\ pembelian_records' =
           Append(pembelian_records,
                  TransactionRecord(lstrip(lines[pos + 1]), current_code,
                                    current_name, current_unit))
    /\ rec_line' = Append(rec_line, pos + 1)
    /\ pos' = pos + 1
    /\ UNCHANGED <<pc, lines, current_code, current_name, current_unit,
                   tableVars, floatVars, stokVars>>

\* if not trans_match: continue
ReadOther ==
    /\ AtLine("other")
    /\ pos' = pos + 1
    /\ UNCHANGED <<pc, lines, current_code, current_name, current_unit,
                   pembelian_records, rec_line, tableVars, floatVars, stokVars>>

\* after the loop: the DataFrame of the records, its columns converted
BuildFrame ==
    /\ pc = "parsing" /\ pos = Len(lines)
    /\ pembelian_records # <<>>
    /\ df' = DataFrame(pembelian_records)
    /\ pc' = "parsed"
    /\ UNCHANGED <<ledgerVars, detector, outlier_mask, classified, cleaned_df,
                   cleaned_mask, floatVars, stokVars>>

\* after the loop, with no record: pd.DataFrame([]) has no column, and
\* df["tanggal"] raises KeyError
BuildFrameNoColumns ==
    /\ pc = "parsing" /\ pos = Len(lines)
    /\ pembelian_records = <<>>
    /\ pc' = "KeyError"
    /\ UNCHANGED <<ledgerVars, tableVars, floatVars, stokVars>>

\* the arguments main passes to detect_outliers: the defaults, and others
\* the command line can give
DetectorArgs ==
    {[method |-> "zscore", threshold |-> DefaultThreshold,
      iqr_factor |-> DefaultIqrFactor],
     [method |-> "zscore", threshold |-> <<1, 2>>,
      iqr_factor |-> DefaultIqrFactor],
     [method |-> "iqr", threshold |-> DefaultThreshold,
      iqr_factor |-> DefaultIqrFactor],
     [method |-> "iqr", threshold |-> DefaultThreshold,
      iqr_factor |-> <<1, 4>>]}

\* outlier_mask = detect_outliers(df, method, threshold, iqr_factor)
Detect ==
    /\ pc = "parsed"
    /\ \E a \in DetectorArgs :
          /\ detector' = a
          /\ outlier_mask' =
                 detect_outliers(df, a.method, a.threshold, a.iqr_factor)
    /\ pc' = "detected"
    /\ UNCHANGED <<ledgerVars, df, classified, cleaned_df, cleaned_mask,
                   floatVars, stokVars>>

\* classified = classify_outliers(df, outlier_mask)
Classify ==
    /\ pc = "detected"
    /\ \E typ_unit \in typical_unit_per_code(df) :
          classified' = classify_outliers(df, outlier_mask, typ_unit)
    /\ pc' = "classified"
    /\ UNCHANGED <<ledgerVars, df, detector, outlier_mask, cleaned_df,
                   cleaned_mask, floatVars, stokVars>>

\* cleaned_df, cleaned_outliers_mask = handle_outliers(df, outlier_mask, classified)
Handle ==
    /\ pc = "classified"
    /\ LET out == handle_outliers(df, outlier_mask, classified)
       IN  /\ cleaned_df' = out.df
           /\ cleaned_mask' = out.mask
    /\ pc' = "handled"
    /\ UNCHANGED <<ledgerVars, df, detector, outlier_mask, classified,
                   floatVars, stokVars>>

\* parse_pembelian_tsv alone, over every kind of line
NextLedger ==
    \/ ReadBlank
    \/ ReadColumnHeader
    \/ ReadProductHeader
    \/ ReadTransaction
    \/ ReadOther
    \/ BuildFrame
    \/ BuildFrameNoColumns

SpecLedger == InitLedger /\ [][NextLedger]_vars

\* the lines of the ledgers taken through the whole pipeline
PipelineLines ==
    {LineBlank, LineKode, HeaderTwo, HeaderFour, TransSale, TransFour,
     TransThree, LineOther}

InitPipeline == lines \in SeqsUpTo(PipelineLines, MaxLines) /\ StartParse

\* parse_pembelian_tsv, then detect_outliers, classify_outliers and
\* handle_outliers on the parsed table
NextPipeline ==
    \/ NextLedger
    \/ Detect
    \/ Classify
    \/ Handle

SpecPipeline == InitPipeline /\ [][NextPipeline]_vars

----------------------------------------------------------------------------
(* to_float_id on its own *)

FloatAlphabet == {"0", "1", ".", ",", "-", " ", "x"}

\* the examples of the docstring and of the thousand-separator rule, and
\* text with a currency prefix
FloatExamples ==
    {<<"1", ".", "2", "3", "4", ",", "5", "0">>,
     <<"2", ",", "0", "0">>,
     <<"1", ".", "2", "3", "4", ".", "5", "6", "7">>,
     <<"R", "p", " ", "1", ".", "0", "0", "0", ",", "-">>,
     <<"-", "1", "2", ",", "5">>}

FloatInputs ==
    {None} \cup SeqsUpTo(FloatAlphabet, MaxStrLen) \cup FloatExamples

InitFloat ==
    /\ pc = "float_call"
    /\ num_str \in FloatInputs
    /\ float_result = [err |-> "", val |-> Zero]
    /\ IdleLedger /\ IdleTable /\ IdleStok

\* the call to_float_id(num_str): it returns a float or an exception leaves it
ToFloat ==
    /\ pc = "float_call"
    /\ float_result' = to_float_id(num_str)
    /\ pc' = IF float_result'.err = "" THEN "float_returned" ELSE "float_raised"
    /\ UNCHANGED <<num_str, ledgerVars, tableVars, stokVars>>

NextFloat == ToFloat

SpecFloat == InitFloat /\ [][NextFloat]_vars

----------------------------------------------------------------------------
(* classify_outliers and handle_outliers on a table and flags given to them *)

CodeA1 == <<"A", "1">>
CodeA2 == <<"A", "2">>
UnitBTL == <<"B", "T", "L">>
UnitSTRIP == <<"S", "T", "R", "I", "P">>

Row(kode, unit, qty_klr, nilai_klr) ==
    [tanggal |-> <<2023, 2, 1>>, no_transaksi |-> <<"T">>,
     qty_msk |-> Zero, nilai_msk |-> Zero,
     qty_klr |-> Float(qty_klr, 0), nilai_klr |-> Float(nilai_klr, 0),
     kode |-> kode, nama_produk |-> <<"P">>, unit |-> unit]

\* rows of a loaded table: prices per unit of 1, 2, 3 and 0 for one product,
\* rows without outgoing quantity, another product, a missing code, a missing unit
OutlierRows ==
    {Row(CodeA1, UnitBTL, 1, 1),
     Row(CodeA1, UnitBTL, 1, 3),
     Row(CodeA1, None, 1, 2),
     Row(CodeA1, UnitBTL, 1, 0),
     Row(CodeA1, UnitSTRIP, 0, 5),
     Row(CodeA1, UnitBTL, 0, 0),
     Row(CodeA2, UnitSTRIP, 1, 2),
     Row(None, UnitBTL, 1, 1)}

\* the rows labelled 0, 1, 2, ... as read_csv labels them
Labelled(rows) ==
    [i \in 1..Len(rows) |->
        [index |-> i - 1,
         tanggal |-> rows[i].tanggal, no_transaksi |-> rows[i].no_transaksi,
         qty_msk |-> rows[i].qty_msk, nilai_msk |-> rows[i].nilai_msk,
         qty_klr |-> rows[i].qty_klr, nilai_klr |-> rows[i].nilai_klr,
         kode |-> rows[i].kode, nama_produk |-> rows[i].nama_produk,
         unit |-> rows[i].unit]]

InitOutlier ==
    /\ pc = "detected"
    /\ \E rows \in SeqsUpTo(OutlierRows, MaxRows) :
          /\ df = Labelled(rows)
          /\ \E flags \in [1..Len(rows) -> BOOLEAN] :
                outlier_mask =
                    [i \in 1..Len(rows) |-> [index |-> i - 1, value |-> flags[i]]]
    /\ detector = NoArgs
    /\ classified = <<>> /\ cleaned_df = <<>> /\ cleaned_mask = <<>>
    /\ IdleLedger /\ IdleFloat /\ IdleStok

NextOutlier ==
    \/ Classify
    \/ Handle

SpecOutlier == InitOutlier /\ [][NextOutlier]_vars

----------------------------------------------------------------------------
(* parse_stok_tsv, one action per way through the loop body *)

StokHeader ==
    <<"K", "O", "D", "E", " ", "N", "A", "M", "A", " ", "L", "O", "K", "A",
      "S", "I", " ", "Q", "T", "Y", " ", "U", "N", "I", "T">>

\* code, name, location, quantity and unit
StokFull ==
    <<"A", "0", "0", "1", " ", "P", "a", "r", "a", "c", "e", "t", "a", "m",
      "o", "l", " ", "G", "u", "d", "a", "n", "g", "A", " ", "1", "0", ",",
      "0", "0", " ", "B", "T", "L">>

\* a name of two words
StokLongName ==
    <<"A", "0", "0", "2", " ", "O", "b", "a", "t", " ", "B", "a", "t", "u",
      "k", " ", "R", "a", "k", "1", " ", "1", ".", "2", "3", "4", ",", "5",
      "0", " ", "S", "T", "R", "I", "P">>

\* lines of a code and three, two, one and no further token
StokNoName == <<"A", "3", " ", "R", "a", "k", "2", " ", "5", ",", "0", "0", " ", "B", "T", "L">>
StokThree == <<"A", "4", " ", "1", "0", ",", "0", "0", " ", "B", "T", "L">>
StokTwo == <<"A", "5", " ", "B", "T", "L">>
StokOne == <<"A", "6">>

\* runs of blanks and a tab between the tokens and around the line
StokSpaced ==
    <<" ", "A", "7", " ", " ", "O", "b", "a", "t", " ", " ", " ", "F", "l",
      "u", "\t", "R", "a", "k", "3", " ", " ", "2", ",", "5", "0", " ", "B",
      "O", "X", " ">>

StokOther == <<"T", "O", "T", "A", "L", " ", "5", ",", "0", "0">>

StokLines ==
    {LineBlank, StokHeader, StokFull, StokLongName, StokNoName, StokThree,
     StokTwo, StokOne, StokSpaced, StokOther}

InitStok ==
    /\ pc = "stok_parsing"
    /\ stok_lines \in SeqsUpTo(StokLines, MaxStokLines)
    /\ stok_pos = 0
    /\ stok_records = <<>>
    /\ stok_error = ""
    /\ IdleLedger /\ IdleTable /\ IdleFloat

\* the kind of a line of the stock file, in the order the loop body tests it
StokLineKind(line) ==
    LET stripped == strip(line)
    IN  IF stripped = <<>> THEN "blank"
        ELSE IF startswith(stripped, <<"K", "O", "D", "E">>) THEN "column_header"
        ELSE IF ~IsProductCode(SplitWs(stripped)[1]) THEN "other"
        ELSE "stock"

StokAtLine(kind) ==
    /\ pc = "stok_parsing"
    /\ stok_pos < Len(stok_lines)
    /\ StokLineKind(stok_lines[stok_pos + 1]) = kind

\* if not line.strip(): continue
StokBlank ==
    /\ StokAtLine("blank")
    /\ stok_pos' = stok_pos + 1
    /\ UNCHANGED <<pc, stok_lines, stok_records, stok_error, ledgerVars,
                   tableVars, floatVars>>

\* if stripped.startswith("KODE"): continue
StokColumnHeader ==
    /\ StokAtLine("column_header")
    /\ stok_pos' = stok_pos + 1
    /\ UNCHANGED <<pc, stok_lines, stok_records, stok_error, ledgerVars,
                   tableVars, floatVars>>

\* if not re.match(r"^A\d+", parts[0]): continue
StokNotCode ==
    /\ StokAtLine("other")
    /\ stok_pos' = stok_pos + 1
    /\ UNCHANGED <<pc, stok_lines, stok_records, stok_error, ledgerVars,
                   tableVars, floatVars>>

\* parts[-k], for k <= len(parts)
FromEnd(parts, k) == parts[Len(parts) - k + 1]

\* parts[1:-2]: the location token taken into the name
NameTokensWithLocation(parts) ==
    IF Len(parts) - 2 >= 2 THEN SubSeq(parts, 2, Len(parts) - 2) ELSE <<>>

\* parts[1:-3]
NameTokens(parts) ==
    IF Len(parts) - 3 >= 2 THEN SubSeq(parts, 2, Len(parts) - 3) ELSE <<>>

\* the record made of the tokens of a line, when parts[-2] and parts[-3] exist
StokRecord(parts) ==
    [kode |-> parts[1],
     nama_produk |-> Join(NameTokens(parts), <<" ">>),
     lokasi |-> FromEnd(parts, 3),
     qty_stok |-> to_float_id(FromEnd(parts, 2)).val,
     unit |-> FromEnd(parts, 1)]

\* parts[-2] and parts[-3] are within the list
HasIndexedTokens(parts) == Len(parts) >= 3

\* a line with a product code whose indexed tokens exist: append a record
StokAppend ==
    /\ StokAtLine("stock")
    /\ LET parts == SplitWs(strip(stok_lines[stok_pos + 1]))
       IN  /\ HasIndexedTokens(parts)
           /\ stok_records' = Append(stok_records, StokRecord(parts))
    /\ stok_pos' = stok_pos + 1
    /\ UNCHANGED <<pc, stok_lines, stok_error, ledgerVars, tableVars, floatVars>>

\* a line with a product code and fewer than three tokens: parts[-2] or
\* parts[-3] raises IndexError, which leaves parse_stok_tsv
StokIndexError ==
    /\ StokAtLine("stock")
    /\ ~HasIndexedTokens(SplitWs(strip(stok_lines[stok_pos + 1])))
    /\ stok_error' = "IndexError"
    /\ stok_pos' = stok_pos + 1
    /\ pc' = "stok_raised"
    /\ UNCHANGED <<stok_lines, stok_records, ledgerVars, tableVars, floatVars>>

\* return pd.DataFrame(stok_records)
StokReturn ==
    /\ pc = "stok_parsing" /\ stok_pos = Len(stok_lines)
    /\ pc' = "stok_returned"
    /\ UNCHANGED <<stokVars, ledgerVars, tableVars, floatVars>>

NextStok ==
    \/ StokBlank
    \/ StokColumnHeader
    \/ StokNotCode
    \/ StokAppend
    \/ StokIndexError
    \/ StokReturn

SpecStok == InitStok /\ [][NextStok]_vars

----------------------------------------------------------------------------
(* Properties of parse_pembelian_tsv *)

\* the numbers of the product header lines before line ln
HeadersBefore(ln) ==
    {j \in 1..(ln - 1) : LineKind(lines[j]) = "product_header"}

\* the product fields a record read from line ln is expected to carry
ExpectedContext(ln) ==
    IF HeadersBefore(ln) = {}
    THEN [code |-> None, name |-> None, unit |-> None]
    ELSE HeaderContext(strip(lines[MaxOf(HeadersBefore(ln))]))

\* C1: a transaction line before any product header line yields a record whose
\* kode, nama_produk and unit are all null, and a transaction line after a
\* header line yields a record with the code, name and unit of the most recent
\* header line before it; the table built from the records keeps these fields.
C1_ContextOfLastHeader ==
    /\ \A i \in 1..Len(pembelian_records) :
          LET ctx == ExpectedContext(rec_line[i])
          IN  /\ pembelian_records[i].kode = ctx.code
              /\ pembelian_records[i].nama_produk = ctx.name
              /\ pembelian_records[i].unit = ctx.unit
    /\ pc = "parsed" =>
          \A i \in 1..Len(df) :
             LET ctx == ExpectedContext(rec_line[i])
             IN  /\ df[i].kode = ctx.code
                 /\ df[i].nama_produk = ctx.name
                 /\ df[i].unit = ctx.unit

\* C1 witness: a record read after two header lines of different products,
\* carrying the fields of the second
C1_Witness ==
    \E i \in 1..Len(pembelian_records) :
       /\ Cardinality(HeadersBefore(rec_line[i])) = 2
       /\ \E j \in HeadersBefore(rec_line[i]) :
             HeaderContext(strip(lines[j])).code # pembelian_records[i].kode
       /\ pembelian_records[i].kode # None

\* the matches of the number pattern in the remainder of the line of record i
NumbersOfRecord(i) ==
    FindNumbers(TransMatch(lstrip(lines[rec_line[i]])).remainder, 0)

\* the offset, within the left-stripped line of record i, of the first number
\* extracted from its remainder
FirstNumberOffset(i) ==
    TransMatch(lstrip(lines[rec_line[i]])).start + NumbersOfRecord(i)[1].at

\* C2: for every transaction line with exactly two extracted numbers, an offset
\* of the first extracted number below 60 puts the two numbers in (qty_msk,
\* nilai_msk) and zeroes the klr fields, an offset of 60 or more puts them in
\* (qty_klr, nilai_klr) and zeroes the msk fields, whatever the transaction id.
C2_TwoNumbersByOffset ==
    \A i \in 1..Len(pembelian_records) :
       LET ms == NumbersOfRecord(i)
           r  == pembelian_records[i]
       IN  Len(ms) = 2 =>
              IF FirstNumberOffset(i) < 60
              THEN /\ r.qty_msk = F(ms[1].tok) /\ r.nilai_msk = F(ms[2].tok)
                   /\ r.qty_klr = Zero /\ r.nilai_klr = Zero
              ELSE /\ r.qty_klr = F(ms[1].tok) /\ r.nilai_klr = F(ms[2].tok)
                   /\ r.qty_msk = Zero /\ r.nilai_msk = Zero

----------------------------------------------------------------------------
(* Properties of parse_stok_tsv *)

\* line i of the stock file starts with a product code and has fewer than
\* four tokens after it
IsShortStokLine(i) ==
    /\ StokLineKind(stok_lines[i]) = "stock"
    /\ Len(SplitWs(strip(stok_lines[i]))) < 5

\* C3: every line that starts with a product code and has fewer than four
\* tokens after it ends the parse with a structured parse error naming that
\* line: it yields no record and no generic error.
C3_ShortLineRaisesParseError ==
    \A i \in 1..stok_pos :
       IsShortStokLine(i) =>
          /\ pc = "stok_raised"
          /\ stok_error = "ParseError"
          /\ i = stok_pos

----------------------------------------------------------------------------
(* Properties of the pipeline on a parsed ledger *)

KindCount(kind) ==
    Cardinality({j \in 1..Len(lines) : LineKind(lines[j]) = kind})

\* detect_outliers was called with its default method, threshold and factor
DefaultDetector ==
    /\ detector.method = "zscore"
    /\ detector.threshold = DefaultThreshold
    /\ detector.iqr_factor = DefaultIqrFactor

\* the ledger is one product header line and two transaction lines, and the
\* outgoing quantity of one is at least a hundred times that of the other
ExtremePairLedger ==
    /\ Len(lines) = 3
    /\ KindCount("product_header") = 1
    /\ KindCount("transaction") = 2
    /\ Len(df) = 2
    /\ LET x == QtyColumn(df)
       IN  \E i, j \in 1..2 : x[i] > 0 /\ x[i] >= 100 * x[j]

Detected == pc \in {"detected", "classified", "handled"}

\* C4 as stated: with the default detector, the ledger of one header line and
\* two transaction lines, one of an extreme outgoing quantity, has exactly one
\* row flagged before resolution and zero or one true flag after it.
C4_OneFlagBeforeResolution ==
    (Detected /\ DefaultDetector /\ ExtremePairLedger) =>
        /\ CountTrue(outlier_mask) = 1
        /\ pc = "handled" => CountTrue(cleaned_mask) \in {0, 1}

\* C4 as amended: with the default detector, that ledger has no row flagged
\* before resolution (each of two rows lies one standard deviation from the
\* mean), and after classify_outliers and handle_outliers both rows remain and
\* the cleaned flags hold no true flag.
C4_NoFlagOfTwoRows ==
    (Detected /\ DefaultDetector /\ ExtremePairLedger) =>
        /\ CountTrue(outlier_mask) = 0
        /\ pc \in {"classified", "handled"} => classified = <<>>
        /\ pc = "handled" =>
              /\ Len(cleaned_df) = 2
              /\ Len(cleaned_mask) = 2
              /\ CountTrue(cleaned_mask) = 0

\* C4 witness: such a ledger taken through detection with the defaults,
\* classification and resolution
C4_Witness ==
    /\ pc = "handled" /\ DefaultDetector /\ ExtremePairLedger
    /\ \E i \in 1..2 : df[i].qty_klr = Float(1000, 0)

----------------------------------------------------------------------------
(* Properties of classify_outliers and handle_outliers *)

Classified == pc \in {"classified", "handled"}

\* the rows of the classification marked as errors
ErrorRows == {i \in 1..Len(classified) : classified[i].is_error}

\* row label l is marked is_error in the classification
MarkedError(l) == \E i \in ErrorRows : classified[i].index = l

\* s is t with some rows left out, the others in their order
RECURSIVE IsSubsequence(_, _)
IsSubsequence(s, t) ==
    IF s = <<>> THEN TRUE
    ELSE IF t = <<>> THEN FALSE
    ELSE IF Head(s) = Head(t) THEN IsSubsequence(Tail(s), Tail(t))
    ELSE IsSubsequence(s, Tail(t))

\* C5: the cleaned table holds exactly the rows of the original table that the
\* classification does not mark is_error, unchanged and in their order, so
\* len(cleaned) + count(is_error) = len(original).
C5_CleanedIsOriginalMinusErrors ==
    pc = "handled" =>
        /\ IsSubsequence(cleaned_df, df)
        /\ \A i \in 1..Len(df) :
              (\E j \in 1..Len(cleaned_df) : cleaned_df[j] = df[i])
                  <=> ~MarkedError(df[i].index)
        /\ Len(cleaned_df) + Cardinality(ErrorRows) = Len(df)

\* C5 witness: a resolution that removed an erroneous row and kept a flagged
\* row that is no error and a row never flagged
C5_Witness ==
    /\ pc = "handled"
    /\ ErrorRows # {}
    /\ \E i \in 1..Len(classified) : ~classified[i].is_error
    /\ \E i \in 1..Len(outlier_mask) : ~outlier_mask[i].value

\* C6: the returned flags have the row labels of the cleaned table, in its
\* order; the flag of a surviving row is true iff the row was flagged in the
\* input; no removed row's label is among them.
C6_FlagsAlignedToCleaned ==
    pc = "handled" =>
        /\ Len(cleaned_mask) = Len(cleaned_df)
        /\ \A i \in 1..Len(cleaned_mask) :
              /\ cleaned_mask[i].index = cleaned_df[i].index
              /\ cleaned_mask[i].value = At(outlier_mask, cleaned_df[i].index)
              /\ ~MarkedError(cleaned_mask[i].index)

\* C6 witness: a resolution that removed a row and returned a true flag and a
\* false flag
C6_Witness ==
    /\ pc = "handled"
    /\ Len(cleaned_df) < Len(df)
    /\ \E i, j \in 1..Len(cleaned_mask) :
          cleaned_mask[i].value /\ ~cleaned_mask[j].value

\* x, a cell, is a number below n / d
Below(x, n, d) == x.k = "num" /\ x.n * d < n * x.d

\* x, a cell, is +inf or a number above n / d
Above(x, n, d) == x.k = "inf" \/ (x.k = "num" /\ x.n * d > n * x.d)

\* the unit is missing, the typical unit is missing, or the two are different
Mismatch(c) == c.unit = None \/ c.typical_unit = None \/ c.unit # c.typical_unit

\* C7: for every flagged row, is_error = (price_ratio < 0.5) or (price_ratio >
\* 1.5) or (unit != typical_unit), the inequalities strict: a price_ratio of
\* exactly 0.5 or 1.5 with the typical unit is no error, and either signal
\* alone marks the row.
C7_ErrorIsPriceOrUnit ==
    Classified =>
        \A i \in 1..Len(classified) :
           LET c == classified[i]
           IN  /\ c.is_error <=>
                     \/ Below(c.price_ratio, 1, 2)
                     \/ Above(c.price_ratio, 3, 2)
                     \/ Mismatch(c)
               /\ (c.price_ratio \in {Num(1, 2), Num(3, 2)} /\ ~Mismatch(c))
                      => ~c.is_error

\* C7 witness: a classification with a row of price_ratio 0.5 and a row of
\* price_ratio 1.5, both of the typical unit and no error, beside a row
\* marked for its unit alone
C7_Witness ==
    /\ Classified
    /\ \E i, j, k \in 1..Len(classified) :
          /\ classified[i].price_ratio = Num(1, 2) /\ ~classified[i].is_error
          /\ classified[j].price_ratio = Num(3, 2) /\ ~classified[j].is_error
          /\ classified[k].price_ratio = Num(1, 1) /\ classified[k].is_error

\* C8: a flagged row with qty_klr = 0 has an undefined price_per_unit and
\* price_ratio, and is marked is_error iff its unit differs from the typical
\* unit of its product, whatever its nilai_klr and the median of its group.
C8_ZeroQuantityJudgedByUnit ==
    Classified =>
        \A i \in 1..Len(classified) :
           LET c == classified[i]
           IN  c.qty_klr = Zero =>
                  /\ c.price_per_unit.k = "nan"
                  /\ c.price_ratio.k = "nan"
                  /\ c.is_error <=> Mismatch(c)

\* C8 witness: two flagged rows without outgoing quantity in a group with a
\* median price, one condemned by its unit alone, one of the typical unit
\* and not condemned
C8_Witness ==
    /\ Classified
    /\ \E i, j \in 1..Len(classified) :
          /\ classified[i].qty_klr = Zero /\ classified[i].is_error
          /\ classified[i].nilai_klr # Zero
          /\ classified[i].median_price_per_unit.k = "num"
          /\ classified[j].qty_klr = Zero /\ ~classified[j].is_error
          /\ classified[j].median_price_per_unit.k = "num"

----------------------------------------------------------------------------
(* Properties of to_float_id *)

Count(c, s) == Cardinality({i \in 1..Len(s) : s[i] = c})

\* the digits, dots, commas and minus signs of the argument, in their order
NumericChars(x) ==
    IF x = None THEN <<>>
    ELSE SelectSeq(x, LAMBDA c : c \in Digit \cup {".", ",", "-"})

\* the text handed to float() holds more than one dot, no digit, or a minus
\* sign that is not its first character
Unparseable(s) ==
    \/ Count(".", s) > 1
    \/ \A i \in 1..Len(s) : s[i] \notin Digit
    \/ \E i \in 2..Len(s) : s[i] = "-"

\* C9: to_float_id raises for no input; null, empty and whitespace-only input
\* returns 0.0, input without digit, dot, comma or minus sign returns 0.0, and
\* input whose cleaned string is no parseable number (more than one comma,
\* a lone dot, a lone or misplaced minus sign) returns 0.0.
C9_NeverRaisesGarbageIsZero ==
    /\ pc # "float_raised"
    /\ pc = "float_returned" =>
          LET c == NumericChars(num_str)
          IN  /\ float_result.err = ""
              /\ c = <<>> => float_result.val = Zero
              /\ Count(",", c) > 1 => float_result.val = Zero
              /\ c \in {<<".">>, <<"-">>, <<",">>} => float_result.val = Zero
              /\ (c # <<>> /\ c[Len(c)] = "-") => float_result.val = Zero
              /\ Unparseable(Localize(c)) => float_result.val = Zero

\* C9 witness: a call returned 0.0 for text of a digit and two commas
C9_Witness ==
    /\ pc = "float_returned"
    /\ num_str = <<"1", ",", ",">>
    /\ float_result.val = Zero

\* the argument is made of digits, dots and at most one comma
IsLocaleNumber(x) ==
    /\ x # None
    /\ \A i \in 1..Len(x) : x[i] \in Digit \cup {".", ","}
    /\ Count(",", x) <= 1

\* the position of the last occurrence of c in s, 0 if none
LastPos(c, s) ==
    MaxOf({i \in 1..Len(s) : s[i] = c})

\* the value of s read with its comma as the decimal point if it has one, with
\* its last dot as the decimal point otherwise, every other dot ignored; 0.0
\* when s has no digit
LocaleValue(s) ==
    LET p  == IF IsIn(",", s) THEN LastPos(",", s) ELSE LastPos(".", s)
        ip == IF p = 0 THEN s ELSE SubSeq(s, 1, p - 1)
        fp == IF p = 0 THEN <<>> ELSE Drop(s, p + 1)
        id == SelectSeq(ip, LAMBDA c : c \in Digit)
        fd == SelectSeq(fp, LAMBDA c : c \in Digit)
    IN  IF id \o fd = <<>> THEN Zero
        ELSE Canon(DigitsValue(id \o fd), Len(fd))

\* C10: for input of digits, dots and at most one comma, a comma is the decimal
\* point and all dots are removed ("1.234,50" is 1234.5, "2,00" is 2); without
\* a comma and with several dots the last dot is the decimal point and the
\* others are dropped ("1.234.567" is 1234.567); otherwise the text is parsed
\* as it stands.
C10_LocaleRules ==
    (pc = "float_returned" /\ IsLocaleNumber(num_str)) =>
        /\ float_result.val = LocaleValue(num_str)
        /\ num_str = <<"1", ".", "2", "3", "4", ",", "5", "0">> =>
              float_result.val = Float(12345, 1)
        /\ num_str = <<"2", ",", "0", "0">> => float_result.val = Float(2, 0)
        /\ num_str = <<"1", ".", "2", "3", "4", ".", "5", "6", "7">> =>
              float_result.val = Float(1234567, 3)
        /\ (~IsIn(",", num_str) /\ Count(".", num_str) <= 1) =>
              float_result.val = float(num_str).val

\* C10 witness: a call returned 1234.5 for "1.234,50"
C10_Witness ==
    /\ pc = "float_returned"
    /\ num_str = <<"1", ".", "2", "3", "4", ",", "5", "0">>
    /\ float_result.val = Float(12345, 1)

----------------------------------------------------------------------------
(* The numeric fields of a ledger record by the count of extracted numbers *)

\* the four numeric fields of record i, in column order
FieldsOfRecord(i) ==
    LET r == pembelian_records[i]
    IN  <<r.qty_msk, r.nilai_msk, r.qty_klr, r.nilai_klr>>

\* C11: the numbers extracted from the remainder of a transaction line fill the
\* fields (qty_msk, nilai_msk, qty_klr, nilai_klr) by their count: four numbers
\* fill the four fields in order, three fill qty_msk, nilai_msk and qty_klr and
\* leave nilai_klr 0, one fills qty_msk and leaves the others 0, none leaves
\* all four 0.
C11_FieldsByCount ==
    \A i \in 1..Len(pembelian_records) :
       LET ms == NumbersOfRecord(i)
           n  == Len(ms)
           v  == [k \in 1..n |-> F(ms[k].tok)]
       IN  /\ n = 4 => FieldsOfRecord(i) = <<v[1], v[2], v[3], v[4]>>
           /\ n = 3 => FieldsOfRecord(i) = <<v[1], v[2], v[3], Zero>>
           /\ n = 1 => FieldsOfRecord(i) = <<v[1], Zero, Zero, Zero>>
           /\ n = 0 => FieldsOfRecord(i) = <<Zero, Zero, Zero, Zero>>
           /\ lines[rec_line[i]] = TransFour =>
                 FieldsOfRecord(i) = <<Float(1, 0), Float(2, 0),
                                       Float(1000, 0), Float(12345, 1)>>

\* C11 witness: one parse has read a line with three numbers, one with a
\* single number and one with none, the third number of the first in qty_klr
C11_Witness ==
    /\ \E i \in 1..Len(pembelian_records) :
          /\ Len(NumbersOfRecord(i)) = 3
          /\ pembelian_records[i].qty_klr = Float(4, 0)
          /\ pembelian_records[i].nilai_klr = Zero
    /\ \E i \in 1..Len(pembelian_records) :
          /\ Len(NumbersOfRecord(i)) = 1
          /\ pembelian_records[i].qty_msk = Float(5, 0)
    /\ \E i \in 1..Len(pembelian_records) : Len(NumbersOfRecord(i)) = 0

----------------------------------------------------------------------------
(* The records of a ledger against its transaction lines *)

\* the numbers of the transaction lines among the first n lines, ascending
TransactionLinesUpTo(n) ==
    SelectSeq([i \in 1..n |-> i],
              LAMBDA i : LineKind(lines[i]) = "transaction")

\* the records read so far are those of the transaction lines read so far, one
\* each and in their order, the product context is that of the last product
\* header line read, and a table that was built has one row per record
RecordsFollowTransactionLines ==
    /\ rec_line = TransactionLinesUpTo(pos)
    /\ Len(pembelian_records) = Len(rec_line)
    /\ \A i \in 1..Len(pembelian_records) :
          LET m == TransMatch(lstrip(lines[rec_line[i]]))
          IN  /\ pembelian_records[i].tanggal = m.tanggal
              /\ pembelian_records[i].no_transaksi = m.no_transaksi
    /\ LET ctx == ExpectedContext(pos + 1)
       IN  /\ current_code = ctx.code
           /\ current_name = ctx.name
           /\ current_unit = ctx.unit
    /\ pc = "parsed" =>
          /\ Len(df) = Len(pembelian_records)
          /\ \A i \in 1..Len(df) :
                df[i].no_transaksi = pembelian_records[i].no_transaksi

\* C12: for every input text the parse completes and returns exactly one
\* record per transaction line, in input order, and nothing else, an empty
\* result included when no line is a transaction line; column header lines,
\* product header lines, blank lines and unrecognized lines emit no record,
\* and of these only product header lines change the product context.
C12_CompletesOneRecordPerTransactionLine ==
    /\ pc # "KeyError"
    /\ RecordsFollowTransactionLines

----------------------------------------------------------------------------
(* The fields of a stock record *)

\* the stock line has a product code and at least four tokens after it
IsFullStokLine(line) ==
    /\ StokLineKind(line) = "stock"
    /\ Len(SplitWs(strip(line))) >= 5

\* the record the line is to give: the first token, the tokens between the
\* first and the third-to-last joined by single spaces, the third-to-last,
\* the value of the second-to-last and the last
ExpectedStokRecord(line) ==
    LET parts == SplitWs(strip(line))
        n     == Len(parts)
    IN  [kode |-> parts[1],
         nama_produk |-> Join([k \in 1..(n - 4) |-> parts[k + 1]], <<" ">>),
         lokasi |-> parts[n - 2],
         qty_stok |-> to_float_id(parts[n - 1]).val,
         unit |-> parts[n]]

\* A001 / Paracetamol / GudangA / 10.0 / BTL
ParacetamolRecord ==
    [kode |-> <<"A", "0", "0", "1">>,
     nama_produk |-> <<"P", "a", "r", "a", "c", "e", "t", "a", "m", "o", "l">>,
     lokasi |-> <<"G", "u", "d", "a", "n", "g", "A">>,
     qty_stok |-> Float(10, 0),
     unit |-> <<"B", "T", "L">>]

\* reading one line of the stock file, by the kind of the line
StokLineEmits ==
    stok_pos' = stok_pos + 1 =>
       LET line == stok_lines[stok_pos + 1]
       IN  /\ IsFullStokLine(line) =>
                 stok_records' = Append(stok_records, ExpectedStokRecord(line))
           /\ line = StokFull =>
                 stok_records' = Append(stok_records, ParacetamolRecord)
           /\ StokLineKind(line) \in {"column_header", "other"} =>
                 stok_records' = stok_records

\* C13: every line whose first token matches the product-code pattern and that
\* has at least four tokens after the code emits one record with kode the
\* first token, unit the last, qty_stok the value of the second-to-last,
\* lokasi the third-to-last and nama_produk the tokens between the first and
\* the third-to-last joined by single spaces; a line that starts with the
\* header token or whose first token is not a product code emits no record.
C13_StokFieldsFromTheRight == [][StokLineEmits]_vars

\* C13 witness: the example line and a line with a name of two words were
\* read, and the records hold Paracetamol and the two words joined
C13_Witness ==
    /\ stok_pos = 2
    /\ stok_lines[1] = StokFull
    /\ stok_lines[2] \in {StokLongName, StokSpaced}
    /\ Len(stok_records) = 2
    /\ stok_records[1] = ParacetamolRecord
    /\ Len(stok_records[2].nama_produk) = 8
    /\ stok_records[2].nama_produk[5] = " "

----------------------------------------------------------------------------
(* The statistics of a product in classify_outliers *)

\* the positions of the rows of the full table with product code k
ProductRows(k) == {i \in 1..Len(df) : k # None /\ df[i].kode = k}

\* those of them that are flagged
FlaggedProductRows(k) ==
    {i \in ProductRows(k) : At(outlier_mask, df[i].index)}

\* the price per unit of row i of the full table, undefined without quantity
PriceOfRow(i) ==
    IF df[i].qty_klr = Zero THEN NaN
    ELSE Div(FromFloat(df[i].nilai_klr), FromFloat(df[i].qty_klr))

\* the median of the defined prices of the rows at the positions S
MedianOver(S) ==
    LET at == SelectSeq([i \in 1..Len(df) |-> i], LAMBDA i : i \in S)
    IN  Median([j \in 1..Len(at) |-> PriceOfRow(at[j])])

\* the most frequent non-null units of the rows at the positions S, null
\* when there is none
ModalUnitsOver(S) ==
    LET us == {df[i].unit : i \in S} \ {None}
        count(u) == Cardinality({i \in S : df[i].unit = u})
    IN  IF us = {} THEN {None}
        ELSE {u \in us : \A v \in us : count(u) >= count(v)}

\* the verdict on the classified row c under a median med and a typical
\* unit typ
VerdictWith(c, med, typ) ==
    LET ratio == Div(c.price_per_unit, med)
    IN  \/ Below(ratio, 1, 2)
        \/ Above(ratio, 3, 2)
        \/ c.unit = None \/ typ = None \/ c.unit # typ

\* C14: the median price per unit and the typical unit that judge a flagged
\* row are those of all rows of the full table with the row's product code,
\* flagged or not, rows of undefined price left out of the median; the verdict
\* follows from the row and these two, so rows of other products have no
\* part in it and unflagged rows of the same product have.
C14_StatisticsOverWholeProduct ==
    Classified =>
        \A i \in 1..Len(classified) :
           LET c == classified[i]
               S == ProductRows(c.kode)
           IN  /\ c.median_price_per_unit = MedianOver(S)
               /\ c.typical_unit \in ModalUnitsOver(S)
               /\ c.price_ratio = Div(c.price_per_unit, MedianOver(S))
               /\ c.is_error <=> VerdictWith(c, MedianOver(S), c.typical_unit)

\* C14 witness: a flagged row beside an unflagged row of its product and a
\* row of another product, marked an error, that the median of the flagged
\* rows of its product alone would clear
C14_Witness ==
    /\ Classified
    /\ \E i \in 1..Len(classified) :
          LET c  == classified[i]
              Fl == FlaggedProductRows(c.kode)
          IN  /\ Fl # ProductRows(c.kode)
              /\ \E j \in 1..Len(df) :
                    df[j].kode \notin {None, c.kode}
              /\ c.typical_unit \in ModalUnitsOver(Fl)
              /\ MedianOver(Fl) # c.median_price_per_unit
              /\ c.is_error
              /\ ~VerdictWith(c, MedianOver(Fl), c.typical_unit)

----------------------------------------------------------------------------
(* Missing units in classify_outliers *)

\* no row of the full table with product code k has a non-null unit
NoUnitInProduct(k) == \A i \in ProductRows(k) : df[i].unit = None

\* C15: a flagged row whose unit is null, or whose product code is null or has
\* no non-null unit in the whole table, so that its typical_unit is null, is
\* marked is_error whatever its price_ratio: a missing value on either side of
\* unit != typical_unit makes it true, two missing values included.
C15_MissingUnitIsError ==
    Classified =>
        \A i \in 1..Len(classified) :
           LET c == classified[i]
           IN  /\ (c.kode = None \/ NoUnitInProduct(c.kode))
                     => c.typical_unit = None
               /\ (c.unit = None \/ c.typical_unit = None) => c.is_error

\* C15 witness: a classification with a row of null unit and null typical
\* unit at the median price of its product, and a row with a unit and no
\* product code, both marked errors
C15_Witness ==
    /\ Classified
    /\ \E i \in 1..Len(classified) :
          /\ classified[i].unit = None
          /\ classified[i].kode # None
          /\ classified[i].typical_unit = None
          /\ classified[i].price_ratio = Num(1, 1)
          /\ classified[i].is_error
    /\ \E i \in 1..Len(classified) :
          /\ classified[i].kode = None
          /\ classified[i].unit # None
          /\ classified[i].is_error

====
